---- MODULE Spec2Model ----
(***************************************************************************)
(* A model of the lockdownd client of libimobiledevice (src/lockdown.c).   *)
(*                                                                         *)
(* One client handle talks to one device.  Every API function of           *)
(* lockdown.c is an operator that takes the "world" (the client's fields,  *)
(* the trust store, the trace of the wire) and the answers of the device,  *)
(* and returns the new world and the function's return code.  Every action *)
(* of the specification is one call of one API function by the caller.     *)
(***************************************************************************)
EXTENDS Integers, Sequences, FiniteSets, TLC

(***************************************************************************)
(* Values.                                                                 *)
(***************************************************************************)
NULL == "NULL"            \* a NULL pointer
Absent == "absent"        \* a key that is not in a plist dict
NonString == "nonstring"  \* a plist node of a type the reader does not expect

\* lockdownd_error_t
E_SUCCESS == "SUCCESS"
E_INVALID_ARG == "INVALID_ARG"
E_INVALID_CONF == "INVALID_CONF"
E_PLIST_ERROR == "PLIST_ERROR"
E_PAIRING_FAILED == "PAIRING_FAILED"
E_SSL_ERROR == "SSL_ERROR"
E_START_SERVICE_FAILED == "START_SERVICE_FAILED"
E_NOT_ENOUGH_DATA == "NOT_ENOUGH_DATA"
E_MUX_ERROR == "MUX_ERROR"
E_ACTIVATION_FAILED == "ACTIVATION_FAILED"
E_PASSWORD_PROTECTED == "PASSWORD_PROTECTED"
E_NO_RUNNING_SESSION == "NO_RUNNING_SESSION"
E_INVALID_HOST_ID == "INVALID_HOST_ID"
E_UNKNOWN_ERROR == "UNKNOWN_ERROR"
\* not a return code: the process died of undefined behaviour inside the call
CRASH == "CRASH"

RESULT_SUCCESS == 0
RESULT_FAILURE == 1
RESULT_ERROR == -1

SessionIds == {"S1", "S2"} \* session ids the device hands out

TheHostId == "H"          \* the HostID the trust store holds, when it holds one
OtherHostId == "Hx"       \* a HostID a caller passes explicitly
TheUuid == "U1"           \* the uuid of the attached device
NoKey == "nokey"          \* the trust store has no key for the device
DeviceKeys == {"K1", "K2"} \* public keys (PEM) the device can return
Labels == {"test"}

(***************************************************************************)
(* Plist dictionaries received from the device.  rc is what the framing    *)
(* layer delivered: "ok" a parsed dict, "fail" an error and no plist,      *)
(* "empty" no error and no plist.                                          *)
(***************************************************************************)
Dict(rc, req, res, err, sid, ssl, port, val, typ) ==
    [rc |-> rc, Request |-> req, Result |-> res, Error |-> err, SessionID |-> sid,
     EnableSessionSSL |-> ssl, Port |-> port, Value |-> val, Type |-> typ]

NoDict(rc) == Dict(rc, Absent, Absent, Absent, Absent, Absent, Absent, Absent, Absent)

Plain(req, res) == Dict("ok", req, res, Absent, Absent, Absent, Absent, Absent, Absent)

NoAnswers == {NoDict("fail"), NoDict("empty")}

\* The Request/Result pairs of the answers the model lets the device give to `verb`.
Shapes(verb) ==
    {<<verb, r>> : r \in {"Success", "Failure", "Bogus", Absent, NonString}}
        \cup {<<q, "Success">> : q \in {"Other", Absent, NonString}}
        \cup {<<"Other", "Failure">>}

(***************************************************************************)
(* The world the operators thread through: the client's fields, the trust  *)
(* store, the trace of the call and whether the process has died.  Every   *)
(* function returns the new world, its return code and, for the functions  *)
(* that have one, the value it hands back.                                 *)
(***************************************************************************)
RT(w, ret, val) == [w |-> w, ret |-> ret, val |-> val]

R(w, ret) == RT(w, ret, NULL)

\* One entry of the trace: k is "send", "recv" or the name of a TLS, trust-store or
\* transport event; enc tells whether a message went through the TLS session.
Ev(k, verb, enc, sid, hostid, lbl, res, dict) ==
    [k |-> k, verb |-> verb, enc |-> enc, sid |-> sid, hostid |-> hostid,
     label |-> lbl, res |-> res, dict |-> dict]

\* an event that is no message: TLS, trust store, transport
Ev0(k, res) == Ev(k, Absent, FALSE, Absent, Absent, Absent, res, NoDict("none"))

Emit(w, e) == [w EXCEPT !.wire = Append(@, e)]

Crash(w) == [w EXCEPT !.crashed = TRUE]

\* The call runs into undefined behaviour: the process dies of it, or goes on
\* (w.undefined remembers that it did).
Undefined(w, ub) == IF ub = "crash" THEN Crash(w) ELSE [w EXCEPT !.undefined = TRUE]

(***************************************************************************)
(* lockdown_check_result                                                   *)
(***************************************************************************)
lockdown_check_result(dict, query_match) ==
    IF dict.rc # "ok" THEN RESULT_ERROR
    ELSE IF dict.Request = Absent THEN RESULT_ERROR
    ELSE IF dict.Request = NonString THEN RESULT_ERROR
    ELSE IF dict.Request # query_match THEN RESULT_ERROR
    ELSE IF dict.Result = Absent THEN RESULT_ERROR
    ELSE IF dict.Result = NonString THEN RESULT_ERROR
    ELSE IF dict.Result = "Success" THEN RESULT_SUCCESS
    ELSE IF dict.Result = "Failure" THEN RESULT_FAILURE
    ELSE RESULT_ERROR

\* plist_dict_add_label without the test of the label: a client without label
\* sends its NULL label as Label field
plist_dict_add_label_Always(lbl) == lbl

\* plist_dict_add_label: the Label field of a request
plist_dict_add_label(lbl) == IF lbl # NULL THEN lbl ELSE Absent

(***************************************************************************)
(* lockdownd_send / lockdownd_recv                                         *)
(***************************************************************************)
lockdownd_send(w, verb, sid, hostid, sendok) ==
    IF w.crashed THEN R(w, CRASH)
    ELSE R(Emit(w, Ev("send", verb, w.ssl_enabled, sid, hostid,
                      plist_dict_add_label(w.label),
                      IF sendok THEN "sent" ELSE "senderr", NoDict("none"))),
           IF sendok THEN E_SUCCESS
           ELSE IF ~w.ssl_enabled THEN E_UNKNOWN_ERROR ELSE E_SSL_ERROR)

lockdownd_recv(w, verb, dict) ==
    IF w.crashed THEN R(w, CRASH)
    ELSE R(Emit(w, Ev("recv", verb, w.ssl_enabled, Absent, Absent, Absent,
                      dict.rc, dict)),
           IF w.ssl_enabled /\ dict.rc = "fail" THEN E_SSL_ERROR
           ELSE IF dict.rc # "ok" THEN E_PLIST_ERROR
           ELSE E_SUCCESS)

\* ret = lockdownd_send(...); ret = lockdownd_recv(...): the functions that
\* receive whatever the send returned
send_then_recv(w, verb, sid, hostid, x) ==
    lockdownd_recv(lockdownd_send(w, verb, sid, hostid, x.sendok).w, verb, x.dict)

\* ret = lockdownd_send(...); if (ret != LOCKDOWN_E_SUCCESS) return ret;
\* ret = lockdownd_recv(...): val tells which of the two calls ret comes from
RecvIfSent(s, verb, dict) ==
    IF s.ret # E_SUCCESS THEN RT(s.w, s.ret, "unsent")
    ELSE [lockdownd_recv(s.w, verb, dict) EXCEPT !.val = "received"]

send_or_return(w, verb, sid, hostid, x) ==
    RecvIfSent(lockdownd_send(w, verb, sid, hostid, x.sendok), verb, x.dict)

(***************************************************************************)
(* lockdownd_ssl_start_session / lockdownd_ssl_stop_session                *)
(* hs: whether gnutls_handshake succeeds.                                  *)
(* ub: what undefined behaviour does: "crash" or "proceed".                *)
(***************************************************************************)
lockdownd_ssl_start_session(w, hs) ==
    IF w.crashed THEN R(w, CRASH)
    ELSE R([Emit(w, Ev0("tls_handshake", IF hs THEN "ok" ELSE "err"))
              EXCEPT !.ssl_certificate = "live", !.ssl_session = "live",
                     !.ssl_enabled = IF hs THEN TRUE ELSE @],
           IF hs THEN E_SUCCESS ELSE E_SSL_ERROR)

\* gnutls_bye when SSL is enabled
ssl_bye(w) == IF w.ssl_enabled THEN Emit(w, Ev0("tls_bye", "ok")) ELSE w

\* gnutls_deinit / gnutls_certificate_free_credentials on a pointer that is
\* never reset: on a pointer already released this is a double free.
ssl_release(w, field, k, ub) ==
    IF w.crashed THEN w
    ELSE IF w[field] = "null" THEN w
    ELSE IF w[field] = "live" THEN Emit([w EXCEPT ![field] = "freed"], Ev0(k, "ok"))
    ELSE Undefined(Emit(w, Ev0(k, "double")), ub)

\* client->ssl_enabled = 0; client->session_id = NULL
ssl_clear(w) ==
    IF w.crashed THEN R(w, CRASH)
    ELSE R([w EXCEPT !.ssl_enabled = FALSE, !.session_id = NULL], E_SUCCESS)

lockdownd_ssl_stop_session(w, ub) ==
    ssl_clear(ssl_release(ssl_release(ssl_bye(w), "ssl_session", "tls_deinit", ub),
                          "ssl_certificate", "cred_free", ub))

(***************************************************************************)
(* lockdownd_stop_session                                                  *)
(* x: [sendok, dict] the fate of the request and the device's answer.      *)
(***************************************************************************)
\* return ret, after lockdownd_ssl_stop_session
stop_return(t, ret) == IF t.w.crashed THEN R(t.w, CRASH) ELSE R(t.w, ret)

stop_answer(r, dict, ub) ==
    IF r.w.crashed THEN R(r.w, CRASH)
    ELSE IF dict.rc # "ok" THEN R(r.w, E_PLIST_ERROR)
    ELSE stop_return(lockdownd_ssl_stop_session(r.w, ub),
                     IF lockdown_check_result(dict, "StopSession") = RESULT_SUCCESS
                     THEN E_SUCCESS ELSE E_UNKNOWN_ERROR)

lockdownd_stop_session(w, sid, x, ub) ==
    IF w.crashed THEN R(w, CRASH)
    ELSE IF sid = NULL THEN R(w, E_INVALID_ARG)
    ELSE stop_answer(send_then_recv(w, "StopSession", sid, Absent, x), x.dict, ub)

(***************************************************************************)
(* lockdownd_goodbye                                                       *)
(***************************************************************************)
goodbye_answer(r, dict) ==
    IF r.w.crashed THEN R(r.w, CRASH)
    ELSE IF dict.rc # "ok" THEN R(r.w, E_PLIST_ERROR)
    ELSE IF lockdown_check_result(dict, "Goodbye") = RESULT_SUCCESS THEN R(r.w, E_SUCCESS)
    ELSE R(r.w, r.ret)

lockdownd_goodbye(w, x) ==
    IF w.crashed THEN R(w, CRASH)
    ELSE goodbye_answer(send_then_recv(w, "Goodbye", Absent, Absent, x), x.dict)

(***************************************************************************)
(* lockdownd_client_free                                                   *)
(* closeok: whether property_list_service_client_free succeeds.            *)
(***************************************************************************)
\* property_list_service_client_free, free(client->uuid), free(client->label),
\* free(client)
free_close(w, closeok) ==
    IF w.crashed THEN R(w, CRASH)
    ELSE R([Emit(w, Ev0("close", IF closeok THEN "ok" ELSE "err"))
              EXCEPT !.handle = "freed", !.uuid = NULL, !.label = NULL],
           IF closeok THEN E_SUCCESS ELSE E_UNKNOWN_ERROR)

\* if (client->session_id) lockdownd_stop_session(client, client->session_id)
stop_if_session(w, xs, ub) ==
    IF w.session_id # NULL THEN lockdownd_stop_session(w, w.session_id, xs, ub).w ELSE w

\* lockdownd_client_free giving up after a StopSession that did not succeed: no
\* Goodbye, the transport left open, the client kept
lockdownd_client_free_Strict(w, xs, xg, ub, closeok) ==
    IF w.crashed THEN R(w, CRASH)
    ELSE IF w.session_id # NULL
            /\ lockdownd_stop_session(w, w.session_id, xs, ub).ret # E_SUCCESS
    THEN R(stop_if_session(w, xs, ub), E_UNKNOWN_ERROR)
    ELSE free_close(lockdownd_goodbye(stop_if_session(w, xs, ub), xg).w, closeok)

lockdownd_client_free(w, xs, xg, ub, closeok) ==
    IF w.crashed THEN R(w, CRASH)
    ELSE free_close(lockdownd_goodbye(stop_if_session(w, xs, ub), xg).w, closeok)

(***************************************************************************)
(* lockdownd_client_set_label                                              *)
(***************************************************************************)
lockdownd_client_set_label(w, lbl) == R([w EXCEPT !.label = lbl], E_SUCCESS)

(***************************************************************************)
(* lockdownd_start_session                                                 *)
(* xs: the exchange of the StopSession of a session still held,            *)
(* x: the StartSession exchange, hs: the outcome of the TLS handshake.     *)
(***************************************************************************)
\* plist_new_string(NULL): strdup and strlen of a NULL pointer
NewStringOfNull(w, ub) == Undefined(w, ub)

new_string(w, str, ub) == IF str = NULL THEN NewStringOfNull(w, ub) ELSE w

\* store session id, we need it for StopSession
store_session_id(w, dict) ==
    IF dict.SessionID \in SessionIds THEN [w EXCEPT !.session_id = dict.SessionID] ELSE w

start_answer(r, dict, hs) ==
    IF r.w.crashed THEN R(r.w, CRASH)
    ELSE IF r.val = "unsent" THEN R(r.w, r.ret)
    ELSE IF dict.rc # "ok" THEN R(r.w, E_PLIST_ERROR)
    ELSE IF lockdown_check_result(dict, "StartSession") = RESULT_FAILURE
    THEN R(r.w, IF dict.Error = "InvalidHostID" THEN E_INVALID_HOST_ID ELSE r.ret)
    ELSE IF dict.EnableSessionSSL = "true"
    THEN lockdownd_ssl_start_session(store_session_id(r.w, dict), hs)
    ELSE R([store_session_id(r.w, dict) EXCEPT !.ssl_enabled = FALSE], E_SUCCESS)

lockdownd_start_session(w, hostid, xs, x, hs, ub) ==
    IF w.crashed THEN R(w, CRASH)
    ELSE start_answer(send_or_return(new_string(stop_if_session(w, xs, ub), hostid, ub),
                                     "StartSession", Absent, hostid, x),
                      x.dict, hs)

(***************************************************************************)
(* lockdownd_query_type                                                    *)
(* type_arg: whether the caller passes a place for the type.               *)
(***************************************************************************)
\* plist_get_string_val(plist_dict_get_item(dict, "Type"), type)
query_type_val(dict, type_arg) ==
    IF type_arg /\ dict.Type \notin {Absent, NonString} THEN dict.Type ELSE NULL

query_answer(r, dict, type_arg, ub) ==
    IF r.w.crashed THEN R(r.w, CRASH)
    ELSE IF r.ret # E_SUCCESS THEN R(r.w, r.ret)
    ELSE IF lockdown_check_result(dict, "QueryType") # RESULT_SUCCESS
    THEN R(r.w, E_UNKNOWN_ERROR)
    ELSE IF ~type_arg                          \* debug_info(..., *type) reads *NULL
    THEN R(Undefined(r.w, ub), IF ub = "crash" THEN CRASH ELSE E_SUCCESS)
    ELSE RT(r.w, E_SUCCESS, query_type_val(dict, type_arg))

lockdownd_query_type(w, type_arg, x, ub) ==
    IF w.crashed THEN R(w, CRASH)
    ELSE query_answer(send_then_recv(w, "QueryType", Absent, Absent, x), x.dict, type_arg, ub)

(***************************************************************************)
(* lockdownd_get_value, lockdownd_set_value, lockdownd_remove_value        *)
(***************************************************************************)
\* ret is what lockdownd_recv returned, whatever lockdown_check_result says
value_answer(r, val) ==
    IF r.w.crashed THEN R(r.w, CRASH)
    ELSE IF r.ret # E_SUCCESS THEN R(r.w, r.ret)
    ELSE RT(r.w, r.ret, val)

lockdownd_get_value(w, x) ==
    IF w.crashed THEN R(w, CRASH)
    ELSE value_answer(send_or_return(w, "GetValue", Absent, Absent, x),
                      IF x.dict.Value # Absent THEN x.dict.Value ELSE NULL)

lockdownd_set_value(w, value, x) ==
    IF w.crashed THEN R(w, CRASH)
    ELSE IF value = NULL THEN R(w, E_INVALID_ARG)
    ELSE value_answer(send_or_return(w, "SetValue", Absent, Absent, x), NULL)

lockdownd_remove_value(w, x) ==
    IF w.crashed THEN R(w, CRASH)
    ELSE value_answer(send_or_return(w, "RemoveValue", Absent, Absent, x), NULL)

\* plist_get_data_val: the data of the Value node, NULL when the node is missing
\* or is not a data node
public_key_of(g) ==
    IF g.ret # E_SUCCESS THEN R(g.w, g.ret)
    ELSE RT(g.w, g.ret, IF g.val \in DeviceKeys THEN g.val ELSE NULL)

lockdownd_get_device_public_key(w, x) == public_key_of(lockdownd_get_value(w, x))

(***************************************************************************)
(* lockdownd_gen_pair_cert                                                 *)
(* cert: what the decoding of the key and the trust store's key material   *)
(* give: "ok", "undecodable" (the PEM/DER decoding fails), "invalid_conf"  *)
(* or "ssl_error" (userpref_get_keys_and_certs fails).                     *)
(***************************************************************************)
CertOutcomes == {"ok", "undecodable", "invalid_conf", "ssl_error"}

lockdownd_gen_pair_cert(public_key, cert) ==
    IF public_key = NULL THEN E_INVALID_ARG
    ELSE IF cert = "undecodable" THEN E_UNKNOWN_ERROR
    ELSE IF cert = "invalid_conf" THEN E_INVALID_CONF
    ELSE IF cert = "ssl_error" THEN E_SSL_ERROR
    ELSE E_SUCCESS

(***************************************************************************)
(* The trust store (userpref).                                             *)
(***************************************************************************)
userpref_get_host_id(w) == w.host_id

userpref_has_device_public_key(w, uuid) == uuid # NULL /\ w.device_key # NoKey

userpref_set_device_public_key(w, uuid, key, storeok) ==
    IF uuid = NULL \/ ~storeok THEN Emit(w, Ev0("store_set", "err"))
    ELSE Emit([w EXCEPT !.device_key = key], Ev0("store_set", "ok"))

userpref_remove_device_public_key(w, uuid, storeok) ==
    IF uuid = NULL \/ ~storeok THEN Emit(w, Ev0("store_remove", "err"))
    ELSE Emit([w EXCEPT !.device_key = NoKey], Ev0("store_remove", "ok"))

(***************************************************************************)
(* lockdownd_do_pair (lockdownd_pair, lockdownd_validate_pair,             *)
(* lockdownd_unpair)                                                       *)
(* xg: the GetValue(DevicePublicKey) exchange, xp: the exchange of the     *)
(* verb, storeok: whether the trust store's write succeeds.                *)
(***************************************************************************)
PairVerbs == {"Pair", "ValidatePair", "Unpair"}

\* the device confirmed the verb: the trust store follows
PairStore(w, verb, public_key, storeok) ==
    IF verb = "Unpair"
    THEN R(userpref_remove_device_public_key(w, w.uuid, storeok), E_SUCCESS)
    ELSE R(userpref_set_device_public_key(w, w.uuid, public_key, storeok), E_SUCCESS)

\* PairAnswer with the test of the answer weakened: every answer that is not a
\* well-formed Failure lets the trust store follow
PairAnswer_Lax(r, verb, dict, public_key, storeok) ==
    IF r.w.crashed THEN R(r.w, CRASH)
    ELSE IF r.ret # E_SUCCESS THEN R(r.w, r.ret)
    ELSE IF lockdown_check_result(dict, verb) # RESULT_FAILURE
    THEN PairStore(r.w, verb, public_key, storeok)
    ELSE IF dict.Error = "PasswordProtected" THEN R(r.w, E_PASSWORD_PROTECTED)
    ELSE R(r.w, E_PAIRING_FAILED)

\* what lockdownd_do_pair does with the answer to the verb
PairAnswer(r, verb, dict, public_key, storeok) ==
    IF r.w.crashed THEN R(r.w, CRASH)
    ELSE IF r.ret # E_SUCCESS THEN R(r.w, r.ret)
    ELSE IF lockdown_check_result(dict, verb) = RESULT_SUCCESS
    THEN PairStore(r.w, verb, public_key, storeok)
    ELSE IF dict.Error = "PasswordProtected" THEN R(r.w, E_PASSWORD_PROTECTED)
    ELSE R(r.w, E_PAIRING_FAILED)

\* the request, with the HostID resolved
PairRequest(w, host_id_loc, verb, xp, public_key, storeok, ub) ==
    PairAnswer(send_or_return(new_string(w, host_id_loc, ub), verb, Absent, host_id_loc, xp),
               verb, xp.dict, public_key, storeok)

\* k: what lockdownd_get_device_public_key gave
PairCert(k, host_id, verb, xp, cert, storeok, ub) ==
    IF k.w.crashed THEN R(k.w, CRASH)
    ELSE IF k.ret # E_SUCCESS THEN R(k.w, k.ret)
    ELSE IF lockdownd_gen_pair_cert(k.val, cert) # E_SUCCESS
    THEN R(k.w, lockdownd_gen_pair_cert(k.val, cert))
    ELSE PairRequest(k.w, IF host_id = NULL THEN userpref_get_host_id(k.w) ELSE host_id,
                     verb, xp, k.val, storeok, ub)

\* the trace notes the call itself: k = "call"
lockdownd_do_pair(w, host_id, verb, xg, xp, cert, storeok, ub) ==
    IF w.crashed THEN R(w, CRASH)
    ELSE PairCert(lockdownd_get_device_public_key(
                      Emit(w, Ev("call", verb, FALSE, Absent, host_id, Absent, "called",
                                 NoDict("none"))), xg),
                  host_id, verb, xp, cert, storeok, ub)

(***************************************************************************)
(* lockdownd_enter_recovery                                                *)
(***************************************************************************)
recovery_answer(r, dict) ==
    IF r.w.crashed THEN R(r.w, CRASH)
    ELSE IF lockdown_check_result(dict, "EnterRecovery") = RESULT_SUCCESS
    THEN R(r.w, E_SUCCESS)
    ELSE R(r.w, r.ret)

lockdownd_enter_recovery(w, x) ==
    IF w.crashed THEN R(w, CRASH)
    ELSE recovery_answer(send_then_recv(w, "EnterRecovery", Absent, Absent, x), x.dict)

(***************************************************************************)
(* lockdownd_start_service                                                 *)
(* Returns the port too ("none" when *port is left alone).                 *)
(***************************************************************************)
service_answer(r, dict) ==
    IF r.w.crashed THEN RT(r.w, CRASH, "none")
    ELSE IF r.ret # E_SUCCESS THEN RT(r.w, r.ret, "none")
    ELSE IF lockdown_check_result(dict, "StartService") # RESULT_SUCCESS
    THEN RT(r.w, E_START_SERVICE_FAILED, "none")
    ELSE IF dict.Port \in {Absent, NonString, "0"} THEN RT(r.w, E_UNKNOWN_ERROR, "none")
    ELSE RT(r.w, E_SUCCESS, dict.Port)

lockdownd_start_service(w, service, port_arg, x) ==
    IF w.crashed THEN RT(w, CRASH, "none")
    ELSE IF service = NULL \/ ~port_arg THEN RT(w, E_INVALID_ARG, "none")
    ELSE IF userpref_get_host_id(w) = NULL THEN RT(w, E_INVALID_CONF, "none")
    ELSE IF w.session_id = NULL THEN RT(w, E_NO_RUNNING_SESSION, "none")
    ELSE service_answer(send_or_return(w, "StartService", Absent, Absent, x), x.dict)

(***************************************************************************)
(* lockdownd_activate, lockdownd_deactivate                                *)
(***************************************************************************)
\* failed: the code for an answer that is not a success
activation_answer(r, dict, verb, failed) ==
    IF r.w.crashed THEN R(r.w, CRASH)
    ELSE IF dict.rc # "ok" THEN R(r.w, E_PLIST_ERROR)
    ELSE IF lockdown_check_result(dict, verb) = RESULT_SUCCESS THEN R(r.w, E_SUCCESS)
    ELSE R(r.w, failed)

lockdownd_activate(w, activation_record, x) ==
    IF w.crashed THEN R(w, CRASH)
    ELSE IF w.session_id = NULL THEN R(w, E_NO_RUNNING_SESSION)
    ELSE IF activation_record = NULL THEN R(w, E_INVALID_ARG)
    ELSE activation_answer(send_then_recv(w, "Activate", Absent, Absent, x), x.dict,
                           "Activate", E_ACTIVATION_FAILED)

lockdownd_deactivate(w, x) ==
    IF w.crashed THEN R(w, CRASH)
    ELSE IF w.session_id = NULL THEN R(w, E_NO_RUNNING_SESSION)
    ELSE activation_answer(send_then_recv(w, "Deactivate", Absent, Absent, x), x.dict,
                           "Deactivate", E_UNKNOWN_ERROR)

(***************************************************************************)
(* lockdownd_client_new                                                    *)
(* muxok: whether property_list_service_client_new connects.               *)
(***************************************************************************)
lockdownd_client_new(w, muxok, lbl) ==
    IF ~muxok THEN R(w, E_MUX_ERROR)
    ELSE R([w EXCEPT !.handle = "live", !.ssl_session = "null",
                     !.ssl_certificate = "null", !.ssl_enabled = FALSE,
                     !.session_id = NULL, !.uuid = NULL, !.label = NULL],
           E_SUCCESS)

(***************************************************************************)
(* lockdownd_client_new_with_handshake, in the order of its statements.    *)
(* The handshake's locals: h.client (client_loc is not NULL), h.ret,       *)
(* h.host_id.                                                              *)
(***************************************************************************)
H(w, client, ret, host_id) == [w |-> w, client |-> client, ret |-> ret, host_id |-> host_id]

\* the handshake goes on with a client
hs_alive(h) == h.client /\ ~h.w.crashed

\* ret = lockdownd_client_new(...); with no client lockdownd_query_type refuses the
\* NULL handle and iphone_device_get_uuid(device, &client_loc->uuid) writes through it
hs_new(n, ub) ==
    IF n.ret = E_SUCCESS THEN H(n.w, TRUE, n.ret, NULL)
    ELSE H(Undefined(n.w, ub), FALSE, E_INVALID_ARG, NULL)

\* strcmp("com.apple.mobile.lockdown", type), with type NULL when the answer had none
hs_type(q, ub) ==
    IF q.ret # E_SUCCESS THEN H(q.w, TRUE, E_NOT_ENOUGH_DATA, NULL)
    ELSE IF q.val = NULL THEN H(Undefined(q.w, ub), TRUE, E_SUCCESS, NULL)
    ELSE H(q.w, TRUE, E_SUCCESS, NULL)

hs_query(h, x, ub) ==
    IF ~hs_alive(h) THEN h ELSE hs_type(lockdownd_query_type(h.w, TRUE, x, ub), ub)

\* userpref_get_host_id(&host_id), after ret = iphone_device_get_uuid(...)
hs_host_id(w, ret) ==
    H(w, TRUE,
      IF ret = E_SUCCESS /\ userpref_get_host_id(w) = NULL THEN E_INVALID_CONF ELSE ret,
      userpref_get_host_id(w))

\* ret = iphone_device_get_uuid(device, &client_loc->uuid): the device that gave
\* the connection gives its uuid
hs_uuid(h) ==
    IF ~hs_alive(h) THEN h ELSE hs_host_id([h.w EXCEPT !.uuid = TheUuid], E_SUCCESS)

\* hs_needs_pair without the look into the trust store: the handshake pairs anew
\* with a device whose key it holds
hs_needs_pair_Always(h) == hs_alive(h) /\ h.ret = E_SUCCESS

\* whether the handshake calls lockdownd_pair
hs_needs_pair(h) ==
    hs_alive(h) /\ h.ret = E_SUCCESS /\ ~userpref_has_device_public_key(h.w, h.w.uuid)

\* ret = lockdownd_pair(...), ret = lockdownd_validate_pair(...)
hs_ret(p, host_id) == H(p.w, TRUE, IF p.w.crashed THEN CRASH ELSE p.ret, host_id)

hs_pair(h, xg, xp, cert, storeok, ub) ==
    IF ~hs_needs_pair(h) THEN h
    ELSE hs_ret(lockdownd_do_pair(h.w, h.host_id, "Pair", xg, xp, cert, storeok, ub),
                h.host_id)

hs_validate(h, xg, xp, cert, storeok, ub) ==
    IF ~hs_alive(h) THEN h
    ELSE hs_ret(lockdownd_do_pair(h.w, h.host_id, "ValidatePair", xg, xp, cert, storeok, ub),
                h.host_id)

\* whether the handshake calls lockdownd_start_session
hs_starts(h) == hs_alive(h) /\ h.ret = E_SUCCESS

hs_started(t, host_id) ==
    H(t.w, TRUE,
      IF t.w.crashed THEN CRASH ELSE IF t.ret # E_SUCCESS THEN E_SSL_ERROR ELSE t.ret,
      host_id)

\* the new client holds no session: lockdownd_start_session stops none
hs_start(h, x, hs, ub) ==
    IF ~hs_starts(h) THEN h
    ELSE hs_started(lockdownd_start_session(h.w, h.host_id, x, x, hs, ub), h.host_id)

\* whether the handshake ends in lockdownd_client_free
hs_frees(h) == hs_alive(h) /\ h.ret # E_SUCCESS

hs_freed(f, ret) == IF f.w.crashed THEN R(f.w, CRASH) ELSE R(f.w, ret)

hs_finish(h, xstop, xbye, ub, closeok) ==
    IF h.w.crashed THEN R(h.w, CRASH)
    ELSE IF ~hs_frees(h) THEN R(h.w, h.ret)
    ELSE hs_freed(lockdownd_client_free(h.w, xstop, xbye, ub, closeok), h.ret)

(***************************************************************************)
(* The answers of the device and the fates of the requests.                *)
(***************************************************************************)
X(sendok, dict) == [sendok |-> sendok, dict |-> dict]

WithError(d, err) == [d EXCEPT !.Error = err]

\* an exchange that does not take place
NoExchange == X(FALSE, NoDict("fail"))

\* a request that could not be sent gets no answer
Unsent == X(FALSE, NoDict("fail"))

Answers(verb) == {Plain(p[1], p[2]) : p \in Shapes(verb)} \cup NoAnswers

Exchanges(verb) == {X(TRUE, d) : d \in Answers(verb)} \cup {Unsent}

\* the exchanges inside the calls that make several
FewExchanges(verb) ==
    {X(TRUE, d) : d \in {Plain(verb, "Success"), Plain(verb, "Failure"), NoDict("fail")}}

PairExchanges(verb) ==
    {X(TRUE, d) : d \in {Plain(verb, "Success"), Plain(verb, "Failure"),
                         Plain("Other", "Success"), NoDict("fail")}}
        \cup {X(TRUE, WithError(Plain(verb, "Failure"), e)) :
                e \in {"PasswordProtected", "InvalidHostID"}}
        \cup {Unsent}

KeyExchanges ==
    {X(TRUE, [Plain("GetValue", "Success") EXCEPT !.Value = v]) :
        v \in DeviceKeys \cup {Absent}}
        \cup {X(TRUE, NoDict("fail"))}

ValueExchanges ==
    Exchanges("GetValue")
        \cup {X(TRUE, [Plain("GetValue", r) EXCEPT !.Value = "K1"]) :
                r \in {"Success", "Failure"}}

StartAnswers ==
    {[Plain(p[1], p[2]) EXCEPT !.SessionID = sid, !.EnableSessionSSL = ssl] :
        p \in {<<"StartSession", "Success">>, <<"Other", "Failure">>},
        sid \in SessionIds \cup {Absent},
        ssl \in {Absent, "true", "false"}}
        \cup {WithError(Plain("StartSession", "Failure"), e) :
                e \in {Absent, "InvalidHostID"}}
        \cup {[Plain("StartSession", Absent) EXCEPT !.SessionID = NonString,
                                                    !.EnableSessionSSL = NonString],
              [WithError(Plain("StartSession", "Failure"), "InvalidHostID")
                  EXCEPT !.SessionID = "S2", !.EnableSessionSSL = "true"],
              NoDict("fail")}

StartExchanges == {X(TRUE, d) : d \in StartAnswers} \cup {Unsent}

QueryExchanges ==
    {X(TRUE, [Plain("QueryType", "Success") EXCEPT !.Type = t]) :
        t \in {"com.apple.mobile.lockdown", "com.apple.mobile.restored", Absent}}
        \cup {X(TRUE, [Plain("QueryType", Absent) EXCEPT !.Type = "com.apple.mobile.lockdown"]),
              X(TRUE, Plain("Other", "Success")), X(TRUE, NoDict("fail")), Unsent}

ServiceExchanges ==
    Exchanges("StartService")
        \cup {X(TRUE, [Plain("StartService", r) EXCEPT !.Port = p]) :
                r \in {"Success", "Failure"}, p \in {"0", "4242", NonString}}

\* the exchanges of lockdownd_client_new_with_handshake
HsKeyExchanges ==
    {X(TRUE, [Plain("GetValue", "Success") EXCEPT !.Value = "K2"]), X(TRUE, NoDict("fail"))}

HsPairExchanges(verb) ==
    {X(TRUE, d) : d \in {Plain(verb, "Success"), Plain(verb, "Failure"),
                         WithError(Plain(verb, "Failure"), "PasswordProtected"),
                         NoDict("fail")}}

HsStartExchanges ==
    {X(TRUE, [Plain("StartSession", "Success")
                EXCEPT !.SessionID = sid, !.EnableSessionSSL = ssl]) :
        sid \in {"S1", Absent}, ssl \in {Absent, "true"}}
        \cup {X(TRUE, d) : d \in {Plain("StartSession", "Failure"),
                                   WithError(Plain("StartSession", "Failure"), "InvalidHostID"),
                                   NoDict("fail")}}

If(cond, S, dflt) == IF cond THEN S ELSE {dflt}

\* what undefined behaviour does, where the call runs into it
Ub(cond) == IF cond THEN {"crash", "proceed"} ELSE {"proceed"}

\* whether exchange x makes lockdownd_do_pair write to the trust store
Writes(verb, x) == lockdown_check_result(x.dict, verb) = RESULT_SUCCESS

(***************************************************************************)
(* lockdownd_ssl_read, the pull callback of the TLS session: it reads      *)
(* `length` bytes from the connection into `buffer`, one iphone_device_recv*)
(* per turn of its loop.  r holds its locals; asked, calls and arrived     *)
(* note what was asked of iphone_device_recv and what it delivered.        *)
(***************************************************************************)
MaxLength == 4            \* the longest read asked of the callback

Bytes == {"a", "b"}

Unwritten == "?"          \* a byte of the buffer the callback has not written

\* what one iphone_device_recv can deliver when asked for this_len bytes
Chunks(this_len) ==
    IF this_len = 0 THEN {<< >>}
    ELSE UNION {[1..k -> Bytes] : k \in 1..this_len}

\* no call of the callback
NoRead ==
    [pc |-> "none", length |-> 0, this_len |-> 0, tbytes |-> 0, pos_start_fill |-> 0,
     buffer |-> << >>, asked |-> 0, calls |-> 0, arrived |-> << >>,
     ret |-> [error |-> FALSE, n |-> 0]]

\* int this_len = length; recv_buffer = malloc(this_len): the call enters its loop
ssl_read_begin(length) ==
    [NoRead EXCEPT !.pc = "loop", !.length = length, !.this_len = length,
                   !.buffer = [i \in 1..length |-> Unwritten]]

\* memcpy(buffer + pos_start_fill, recv_buffer, bytes)
ssl_read_memcpy(buffer, pos_start_fill, chunk) ==
    [i \in DOMAIN buffer |->
        IF i > pos_start_fill /\ i <= pos_start_fill + Len(chunk)
        THEN chunk[i - pos_start_fill] ELSE buffer[i]]

\* the end of a turn: break and return tbytes, or go on for the missing bytes
ssl_read_next(r) ==
    IF r.tbytes >= r.length
    THEN [r EXCEPT !.pc = "returned", !.ret = [error |-> FALSE, n |-> r.tbytes]]
    ELSE [r EXCEPT !.this_len = r.length - r.tbytes]

\* ssl_read_next that leaves this_len alone: every turn asks for `length` bytes
ssl_read_turn_Whole(r, chunk) ==
    IF [r EXCEPT !.tbytes = @ + Len(chunk)].tbytes >= r.length
    THEN [r EXCEPT !.asked = r.this_len, !.calls = @ + 1, !.arrived = @ \o chunk,
                   !.tbytes = @ + Len(chunk),
                   !.buffer = ssl_read_memcpy(@, r.pos_start_fill, chunk),
                   !.pos_start_fill = @ + Len(chunk),
                   !.pc = "returned", !.ret = [error |-> FALSE, n |-> r.tbytes + Len(chunk)]]
    ELSE [r EXCEPT !.asked = r.this_len, !.calls = @ + 1, !.arrived = @ \o chunk,
                   !.tbytes = @ + Len(chunk),
                   !.buffer = ssl_read_memcpy(@, r.pos_start_fill, chunk),
                   !.pos_start_fill = @ + Len(chunk)]

\* one turn of the loop in which iphone_device_recv delivers chunk
ssl_read_turn(r, chunk) ==
    ssl_read_next([r EXCEPT !.asked = r.this_len, !.calls = @ + 1, !.arrived = @ \o chunk,
                            !.tbytes = @ + Len(chunk),
                            !.buffer = ssl_read_memcpy(@, r.pos_start_fill, chunk),
                            !.pos_start_fill = @ + Len(chunk)])

\* one turn of the loop in which iphone_device_recv fails: return res
ssl_read_fail(r) ==
    [r EXCEPT !.asked = r.this_len, !.calls = @ + 1, !.pc = "returned",
              !.ret = [error |-> TRUE, n |-> 0]]

(***************************************************************************)
(* The state: the client handle and its fields (struct lockdownd_client_int),*)
(* the trust store, and what the last call did.                            *)
(***************************************************************************)
VARIABLES
    handle,           \* "none": no client yet, "live", "freed", "crashed"
    ssl_session,      \* client->ssl_session: "null", "live", "freed" (dangling)
    ssl_certificate,  \* client->ssl_certificate: likewise
    ssl_enabled,      \* client->ssl_enabled
    session_id,       \* client->session_id
    uuid,             \* client->uuid
    label,            \* client->label
    host_id,          \* trust store: the HostID, or NULL
    device_key,       \* trust store: the public key stored for the device, or NoKey
    undefined,        \* the process went on past undefined behaviour
    wire,             \* the trace of the last call: requests, answers, TLS and store events
    last,             \* the last call: [op, arg, ret, val]
    rd                \* the locals of a call of lockdownd_ssl_read

vars == <<handle, ssl_session, ssl_certificate, ssl_enabled, session_id, uuid, label,
          host_id, device_key, undefined, wire, last, rd>>

World ==
    [handle |-> handle, ssl_session |-> ssl_session, ssl_certificate |-> ssl_certificate,
     ssl_enabled |-> ssl_enabled, session_id |-> session_id, uuid |-> uuid,
     label |-> label, host_id |-> host_id, device_key |-> device_key,
     undefined |-> undefined, wire |-> << >>, crashed |-> FALSE]

Init ==
    /\ handle = "none"
    /\ ssl_session = "null"
    /\ ssl_certificate = "null"
    /\ ssl_enabled = FALSE
    /\ session_id = NULL
    /\ uuid = NULL
    /\ label = NULL
    /\ host_id \in {NULL, TheHostId}
    /\ device_key \in {NoKey, "K1"}
    /\ undefined = FALSE
    /\ wire = << >>
    /\ last = [op |-> "none", arg |-> NULL, ret |-> E_SUCCESS, val |-> NULL]
    /\ rd = NoRead

\* The call `op` with argument `arg` ended in world w with return code ret.
Commit(op, arg, w, ret, val) ==
    /\ handle' = IF w.crashed THEN "crashed" ELSE w.handle
    /\ ssl_session' = w.ssl_session
    /\ ssl_certificate' = w.ssl_certificate
    /\ ssl_enabled' = w.ssl_enabled
    /\ session_id' = w.session_id
    /\ uuid' = w.uuid
    /\ label' = w.label
    /\ host_id' = w.host_id
    /\ device_key' = w.device_key
    /\ undefined' = w.undefined
    /\ wire' = w.wire
    /\ last' = [op |-> op, arg |-> arg, ret |-> IF w.crashed THEN CRASH ELSE ret, val |-> val]
    /\ rd' = rd

\* r: what the function returned
Done(op, arg, r) == Commit(op, arg, r.w, r.ret, r.val)

\* the caller has taken the result of the last call, and makes the next one
Idle == last.op = "none"

Live == handle = "live" /\ Idle

\* The caller takes the result of the call: the trace of the call is dropped.
Return ==
    /\ ~Idle
    /\ handle \in {"none", "live"}
    /\ wire' = << >>
    /\ last' = [op |-> "none", arg |-> NULL, ret |-> E_SUCCESS, val |-> NULL]
    /\ UNCHANGED <<handle, ssl_session, ssl_certificate, ssl_enabled, session_id, uuid,
                   label, host_id, device_key, undefined, rd>>

\* a second gnutls_deinit is at hand
Dangling == ssl_session = "freed" \/ ssl_certificate = "freed"

(***************************************************************************)
(* The calls.                                                              *)
(***************************************************************************)
ClientNew ==
    /\ handle = "none"
    /\ Idle
    /\ \E muxok \in BOOLEAN, lbl \in Labels \cup {NULL} :
         Done("client_new", lbl, lockdownd_client_new(World, muxok, lbl))

\* lockdownd_client_new_with_handshake, stage by stage: the exchanges of a stage
\* are those the stages before let happen
HsFinish(h, lbl, ub) ==
    \E xstop \in If(hs_frees(h) /\ h.w.session_id # NULL,
                    FewExchanges("StopSession"), NoExchange),
       xbye \in If(hs_frees(h), FewExchanges("Goodbye"), NoExchange) :
      Done("client_new_with_handshake", lbl, hs_finish(h, xstop, xbye, ub, TRUE))

HsStart(h, lbl, ub) ==
    \E xss \in If(hs_starts(h), HsStartExchanges, NoExchange) :
    \E hs \in If(xss.dict.EnableSessionSSL = "true", BOOLEAN, FALSE) :
      HsFinish(hs_start(h, xss, hs, ub), lbl, ub)

HsValidate(h, lbl, ub) ==
    \E xg \in If(hs_alive(h), HsKeyExchanges, NoExchange) :
    \E cert \in If(xg.dict.Value \in DeviceKeys, {"ok", "invalid_conf"}, "ok") :
    \E xp \in If(xg.dict.Value \in DeviceKeys /\ cert = "ok",
                 HsPairExchanges("ValidatePair"), NoExchange) :
    \E storeok \in If(Writes("ValidatePair", xp), BOOLEAN, TRUE) :
      HsStart(hs_validate(h, xg, xp, cert, storeok, ub), lbl, ub)

HsPair(h, lbl, ub) ==
    \E xg \in If(hs_needs_pair(h), HsKeyExchanges, NoExchange) :
    \E cert \in If(xg.dict.Value \in DeviceKeys, {"ok", "invalid_conf"}, "ok") :
    \E xp \in If(xg.dict.Value \in DeviceKeys /\ cert = "ok",
                 HsPairExchanges("Pair"), NoExchange) :
    \E storeok \in If(Writes("Pair", xp), BOOLEAN, TRUE) :
      HsValidate(hs_pair(h, xg, xp, cert, storeok, ub), lbl, ub)

HsQuery(h, lbl, ub) ==
    \E xq \in If(hs_alive(h), QueryExchanges, NoExchange) :
      HsPair(hs_uuid(hs_query(h, xq, ub)), lbl, ub)

ClientNewWithHandshake ==
    \E muxok \in IF handle = "none" /\ Idle THEN BOOLEAN ELSE {} :
    \E lbl \in Labels \cup {NULL}, ub \in {"crash", "proceed"} :
      HsQuery(hs_new(lockdownd_client_new(World, muxok, lbl), ub), lbl, ub)

ClientFree ==
    /\ Live
    /\ \E xs \in If(session_id # NULL, Exchanges("StopSession"), NoExchange),
          xg \in Exchanges("Goodbye"),
          ub \in Ub(session_id # NULL /\ Dangling),
          closeok \in BOOLEAN :
         Done("client_free", NULL, lockdownd_client_free(World, xs, xg, ub, closeok))

SetLabel ==
    /\ Live
    /\ \E lbl \in Labels \cup {NULL} :
         Done("set_label", lbl, lockdownd_client_set_label(World, lbl))

QueryType ==
    /\ Live
    /\ \E type_arg \in BOOLEAN, x \in QueryExchanges :
       \E ub \in Ub(~type_arg) :
         Done("query_type", type_arg, lockdownd_query_type(World, type_arg, x, ub))

GetValue ==
    /\ Live
    /\ \E x \in ValueExchanges :
         Done("get_value", NULL, lockdownd_get_value(World, x))

SetValue ==
    /\ Live
    /\ \E value \in {NULL, "K1"} :
       \E x \in If(value # NULL, Exchanges("SetValue"), NoExchange) :
         Done("set_value", value, lockdownd_set_value(World, value, x))

RemoveValue ==
    /\ Live
    /\ \E x \in Exchanges("RemoveValue") :
         Done("remove_value", NULL, lockdownd_remove_value(World, x))

DoPair(verb) ==
    /\ Live
    /\ \E hid \in {NULL, OtherHostId}, xg \in KeyExchanges :
       \E cert \in If(xg.dict.Value \in DeviceKeys, CertOutcomes, "ok") :
       \E xp \in If(xg.dict.Value \in DeviceKeys /\ cert = "ok",
                    Exchanges(verb) \cup PairExchanges(verb), NoExchange) :
       \E storeok \in If(Writes(verb, xp), BOOLEAN, TRUE),
          ub \in Ub(hid = NULL /\ host_id = NULL) :
         Done(verb, hid, lockdownd_do_pair(World, hid, verb, xg, xp, cert, storeok, ub))

Pair == DoPair("Pair")

ValidatePair == DoPair("ValidatePair")

Unpair == DoPair("Unpair")

EnterRecovery ==
    /\ Live
    /\ \E x \in Exchanges("EnterRecovery") :
         Done("enter_recovery", NULL, lockdownd_enter_recovery(World, x))

Goodbye ==
    /\ Live
    /\ \E x \in Exchanges("Goodbye") :
         Done("goodbye", NULL, lockdownd_goodbye(World, x))

StartSession ==
    /\ Live
    /\ \E hid \in {NULL, TheHostId},
          xs \in If(session_id # NULL, FewExchanges("StopSession"), NoExchange) :
       \E x \in If(hid # NULL, StartExchanges, NoExchange) :
       \E hs \in If(x.dict.EnableSessionSSL = "true", BOOLEAN, FALSE),
          ub \in Ub(hid = NULL \/ (session_id # NULL /\ Dangling)) :
         Done("start_session", hid, lockdownd_start_session(World, hid, xs, x, hs, ub))

StopSession ==
    /\ Live
    /\ \E sid \in SessionIds \cup {NULL} :
       \E x \in If(sid # NULL, Exchanges("StopSession"), NoExchange),
          ub \in Ub(sid # NULL /\ Dangling) :
         Done("stop_session", sid, lockdownd_stop_session(World, sid, x, ub))

StartService ==
    /\ Live
    /\ \E service \in {NULL, "com.apple.afc"}, port_arg \in BOOLEAN :
       \E x \in If(service # NULL /\ port_arg /\ host_id # NULL /\ session_id # NULL,
                   ServiceExchanges, NoExchange) :
         Done("start_service", [service |-> service, port |-> port_arg],
              lockdownd_start_service(World, service, port_arg, x))

Activate ==
    /\ Live
    /\ \E record \in {NULL, "record"} :
       \E x \in If(record # NULL /\ session_id # NULL, Exchanges("Activate"), NoExchange) :
         Done("activate", record, lockdownd_activate(World, record, x))

Deactivate ==
    /\ Live
    /\ \E x \in If(session_id # NULL, Exchanges("Deactivate"), NoExchange) :
         Done("deactivate", NULL, lockdownd_deactivate(World, x))

Next ==
    \/ ClientNew
    \/ ClientNewWithHandshake
    \/ ClientFree
    \/ SetLabel
    \/ QueryType
    \/ GetValue
    \/ SetValue
    \/ RemoveValue
    \/ Pair
    \/ ValidatePair
    \/ Unpair
    \/ EnterRecovery
    \/ Goodbye
    \/ StartSession
    \/ StopSession
    \/ StartService
    \/ Activate
    \/ Deactivate
    \/ Return

Spec == Init /\ [][Next]_vars

(***************************************************************************)
(* The calls of lockdownd_ssl_read by the TLS session of a client, turn by *)
(* turn of its loop.                                                       *)
(***************************************************************************)
ClientVars ==
    <<handle, ssl_session, ssl_certificate, ssl_enabled, session_id, uuid, label,
      host_id, device_key, undefined, wire, last>>

\* a client whose TLS session asks for `length` bytes, in the handshake or after it
InitRead ==
    /\ handle = "live"
    /\ ssl_session = "live"
    /\ ssl_certificate = "live"
    /\ ssl_enabled \in BOOLEAN
    /\ session_id = NULL
    /\ uuid = NULL
    /\ label = NULL
    /\ host_id = TheHostId
    /\ device_key = NoKey
    /\ undefined = FALSE
    /\ wire = << >>
    /\ last = [op |-> "none", arg |-> NULL, ret |-> E_SUCCESS, val |-> NULL]
    /\ rd \in {ssl_read_begin(length) : length \in 0..MaxLength}

SslReadRecv ==
    /\ rd.pc = "loop"
    /\ \E chunk \in Chunks(rd.this_len) : rd' = ssl_read_turn(rd, chunk)
    /\ UNCHANGED ClientVars

SslReadError ==
    /\ rd.pc = "loop"
    /\ rd' = ssl_read_fail(rd)
    /\ UNCHANGED ClientVars

NextRead ==
    \/ SslReadRecv
    \/ SslReadError

SpecRead == InitRead /\ [][NextRead]_vars

(***************************************************************************)
(* Reading the trace of a call.                                            *)
(***************************************************************************)
IsMsg(e, k, verb) == e.k = k /\ e.verb = verb

Has(tr, k, verb) == \E i \in DOMAIN tr : IsMsg(tr[i], k, verb)

\* the request `verb` went out
Sent(tr, verb) == \E i \in DOMAIN tr : IsMsg(tr[i], "send", verb) /\ tr[i].res = "sent"

\* lockdownd_pair / lockdownd_validate_pair / lockdownd_unpair was called
Called(tr, verb) == Has(tr, "call", verb)

\* the device answered `verb` with a well-formed Success
SaidSuccess(e) ==
    /\ e.k = "recv"
    /\ e.dict.rc = "ok"
    /\ e.dict.Request = e.verb
    /\ e.dict.Result = "Success"

\* an answer that is not a well-formed answer to `verb`; QueryType's answer has
\* no Result to look at
Malformed(d, verb) ==
    /\ d.rc = "ok"
    /\ \/ d.Request # verb
       \/ verb # "QueryType" /\ d.Result \notin {"Success", "Failure"}

StoreKinds == {"store_set", "store_remove"}

(***************************************************************************)
(* C1.  In every reachable state, a client whose TLS mode is active holds  *)
(* a session id.  The code enables TLS on a StartSession answer that       *)
(* carries EnableSessionSSL = true and no string SessionID.  Stated of the  *)
(* runs that have met no undefined behaviour, as are C2 and C4 to C9.      *)
(***************************************************************************)
C1_TlsImpliesSession == ssl_enabled /\ ~undefined => session_id # NULL

(***************************************************************************)
(* C2.  The client holds a session id iff a StartSession succeeded and no  *)
(* StopSession completed since: a StartSession that returned success has   *)
(* left a session id stored, and a StopSession that sent its request and   *)
(* returned has left none.                                                 *)
(***************************************************************************)
C2_SessionIffStarted ==
    ~undefined =>
        /\ last.op = "start_session" /\ last.ret = E_SUCCESS => session_id # NULL
        /\ last.op = "stop_session" /\ last.ret \notin {E_INVALID_ARG, CRASH}
              => session_id = NULL

(***************************************************************************)
(* C3.  For Pair, ValidatePair and Unpair the trust store's key of the     *)
(* device changes only right after a well-formed answer to that verb with  *)
(* Result = Success, and a verb that ends with an error leaves the key     *)
(* what it was before the call.                                            *)
(***************************************************************************)
StoredAfterSuccess(tr) ==
    \A i \in DOMAIN tr :
        tr[i].k \in StoreKinds =>
            /\ i > 1
            /\ tr[i - 1].verb \in PairVerbs
            /\ SaidSuccess(tr[i - 1])
            /\ tr[i].k = "store_remove" <=> tr[i - 1].verb = "Unpair"

C3_StoreOnlyAfterSuccess ==
    [][/\ StoredAfterSuccess(wire')
       /\ device_key' # device_key =>
             \E i \in DOMAIN wire' : wire'[i].k \in StoreKinds /\ wire'[i].res = "ok"
       /\ last'.op \in PairVerbs /\ last'.ret # E_SUCCESS => device_key' = device_key]_vars

\* Pair answered with Success: the key the device gave is now the stored one
C3_Witness ==
    /\ last.op = "Pair"
    /\ last.ret = E_SUCCESS
    /\ device_key = "K2"
    /\ \E i \in DOMAIN wire : wire[i].k = "store_set" /\ wire[i].res = "ok"

(***************************************************************************)
(* C4.  free on a client with an open session shows on the wire, in this   *)
(* order: the StopSession request with the stored SessionID, the TLS       *)
(* close-notify if TLS was active, the Goodbye request in plaintext, the   *)
(* close of the transport, whatever the device answers to StopSession.     *)
(* Stated of the calls whose StopSession request went out.                 *)
(***************************************************************************)
FreeOrder(tr, sid, tls) ==
    /\ Len(tr) >= 3
    /\ IsMsg(tr[1], "send", "StopSession")
    /\ tr[1].sid = sid
    /\ tr[Len(tr)].k = "close"
    /\ \E g \in 2..(Len(tr) - 1) :
          /\ IsMsg(tr[g], "send", "Goodbye")
          /\ ~tr[g].enc
          /\ tls => \E b \in 2..(g - 1) : tr[b].k = "tls_bye"

C4_FreeOrder ==
    [][/\ last'.op = "client_free"
       /\ session_id # NULL
       /\ Sent(wire', "StopSession")
       /\ last'.ret # CRASH
       /\ ~undefined'
       => FreeOrder(wire', session_id, ssl_enabled)]_vars

(***************************************************************************)
(* C5.  StartService, Activate and Deactivate on a client that holds no    *)
(* session id return NoRunningSession and send nothing, whatever the trust *)
(* store holds and whatever record is passed.                              *)
(***************************************************************************)
C5_NoSessionNoTraffic ==
    /\ ~undefined
    /\ session_id = NULL
    /\ \/ last.op \in {"activate", "deactivate"}
       \/ last.op = "start_service" /\ last.arg.service # NULL /\ last.arg.port
    => last.ret = E_NO_RUNNING_SESSION /\ wire = << >>

(***************************************************************************)
(* C6.  A call whose last answer is malformed (Request missing, not a      *)
(* string or not the verb sent; Result missing or neither Success nor      *)
(* Failure, QueryType excepted) returns PlistError.                        *)
(***************************************************************************)
C6_MalformedIsPlistError ==
    /\ ~undefined
    /\ Len(wire) > 0
    /\ wire[Len(wire)].k = "recv"
    /\ Malformed(wire[Len(wire)].dict, wire[Len(wire)].verb)
    => last.ret = E_PLIST_ERROR

(***************************************************************************)
(* C7.  TLS follows the last answer to StartSession: with                  *)
(* EnableSessionSSL = true and a completed handshake TLS is active when    *)
(* StartSession returns, and with the key missing or false TLS is inactive *)
(* and the messages that follow are plaintext.                             *)
(***************************************************************************)
C7_TlsFollowsStartSession ==
    \A i \in DOMAIN wire :
        /\ last.op = "start_session"
        /\ last.ret # CRASH
        /\ ~undefined
        /\ IsMsg(wire[i], "recv", "StartSession")
        /\ wire[i].dict.rc = "ok"
        => IF wire[i].dict.EnableSessionSSL = "true"
           THEN (\E j \in DOMAIN wire : j > i /\ wire[j].k = "tls_handshake"
                                             /\ wire[j].res = "ok") => ssl_enabled
           ELSE ~ssl_enabled

(***************************************************************************)
(* C8.  A StartSession answered with Success, a SessionID and              *)
(* EnableSessionSSL = true whose TLS handshake fails returns SslError,     *)
(* has stored the SessionID and leaves TLS inactive.                       *)
(***************************************************************************)
C8_HandshakeFailure ==
    \A i \in DOMAIN wire :
        /\ last.op = "start_session"
        /\ ~undefined
        /\ IsMsg(wire[i], "recv", "StartSession")
        /\ SaidSuccess(wire[i])
        /\ wire[i].dict.SessionID \in SessionIds
        /\ wire[i].dict.EnableSessionSSL = "true"
        /\ \E j \in DOMAIN wire : j > i /\ wire[j].k = "tls_handshake" /\ wire[j].res = "err"
        => /\ last.ret = E_SSL_ERROR
           /\ session_id = wire[i].dict.SessionID
           /\ ~ssl_enabled

(***************************************************************************)
(* C9.  A StopSession called with a session id that has issued its request *)
(* ends with TLS disabled and no session id held, whatever the outcome of  *)
(* the exchange.  Stated of the calls that pass the id the client holds.   *)
(***************************************************************************)
C9_StopAlwaysClears ==
    [][/\ last'.op = "stop_session"
       /\ session_id # NULL
       /\ last'.arg = session_id
       /\ Sent(wire', "StopSession")
       /\ last'.ret # CRASH
       /\ ~undefined'
       => ~ssl_enabled' /\ session_id' = NULL]_vars

(***************************************************************************)
(* C10.  In lockdownd_client_new_with_handshake the requests QueryType,    *)
(* Pair, ValidatePair, StartSession go out in this order, each at most     *)
(* once, QueryType first.  As stated: the Pair request is on the wire iff  *)
(* the trust store holds no key for the device.  As the code has it:       *)
(* lockdownd_pair is called iff the handshake reaches the pairing step,    *)
(* the trust store holds no key for the device and it holds a HostID; the  *)
(* Pair request goes out only inside that call.                            *)
(***************************************************************************)
HsRank(verb) ==
    CASE verb = "QueryType" -> 1
      [] verb = "Pair" -> 2
      [] verb = "ValidatePair" -> 3
      [] verb = "StartSession" -> 4
      [] OTHER -> 0

HsRequest(e) == e.k = "send" /\ HsRank(e.verb) > 0

HsOrdered(tr) ==
    /\ \A i, j \in DOMAIN tr :
          i < j /\ HsRequest(tr[i]) /\ HsRequest(tr[j]) => HsRank(tr[i].verb) < HsRank(tr[j].verb)
    /\ Len(tr) > 0 => IsMsg(tr[1], "send", "QueryType")
    /\ Has(tr, "send", "StartSession") => Has(tr, "send", "ValidatePair")

Answered(tr, verb, res, err) ==
    \E i \in DOMAIN tr :
        /\ IsMsg(tr[i], "recv", verb)
        /\ tr[i].dict.rc = "ok"
        /\ tr[i].dict.Request = verb
        /\ tr[i].dict.Result = res
        /\ tr[i].dict.Error = err

\* the call is lockdownd_client_new_with_handshake, it has returned, and it met no
\* undefined behaviour
HsReturned(l, undef) == l.op = "client_new_with_handshake" /\ l.ret # CRASH /\ ~undef

(***************************************************************************)
(* C11.  A handshake with a device whose key the trust store does not hold *)
(* and that answers Pair with Result = Failure, Error = PasswordProtected  *)
(* returns PasswordProtected, frees the client instead of handing it out   *)
(* and leaves the trust store as it was, whatever the device answers to    *)
(* the requests that follow.  The code calls lockdownd_validate_pair after *)
(* the failed lockdownd_pair and takes its return code.                    *)
(***************************************************************************)
C11_LockedDevice ==
    [][/\ HsReturned(last', undefined')
       /\ device_key = NoKey
       /\ Answered(wire', "Pair", "Failure", "PasswordProtected")
       => /\ last'.ret = E_PASSWORD_PROTECTED
          /\ handle' = "freed"
          /\ device_key' = device_key]_vars

(***************************************************************************)
(* C12.  A handshake one of whose steps fails returns an error, the error  *)
(* of that step (InvalidHostId when StartSession is answered with Failure  *)
(* and Error = InvalidHostID), and frees the client instead of handing it  *)
(* out.  A step has failed when the trust store holds no HostID or when    *)
(* the answer to QueryType, Pair, ValidatePair or StartSession is missing  *)
(* or is no well-formed Success.                                           *)
(***************************************************************************)
HsVerbs == {"QueryType", "Pair", "ValidatePair", "StartSession"}

HsStepFailed(tr, hostid) ==
    \/ hostid = NULL
    \/ \E i \in DOMAIN tr :
          tr[i].k = "recv" /\ tr[i].verb \in HsVerbs /\ ~SaidSuccess(tr[i])

C12_FailedStepFails ==
    [][/\ HsReturned(last', undefined')
       /\ HsStepFailed(wire', host_id)
       => /\ last'.ret # E_SUCCESS
          /\ handle' = "freed"
          /\ Answered(wire', "StartSession", "Failure", "InvalidHostID")
                => last'.ret = E_INVALID_HOST_ID]_vars

(***************************************************************************)
(* C13.  A handshake on a trust store without HostID returns InvalidConf   *)
(* and sends no Pair, ValidatePair or StartSession request.  The code      *)
(* calls lockdownd_validate_pair all the same and returns what it returns. *)
(***************************************************************************)
C13_NoHostIdInvalidConf ==
    [][/\ HsReturned(last', undefined')
       /\ host_id = NULL
       => /\ last'.ret = E_INVALID_CONF
          /\ \A v \in {"Pair", "ValidatePair", "StartSession"} : ~Has(wire', "send", v)]_vars

\* the last answer to `verb` in the trace of the call
HasRecv(tr, verb) == Has(tr, "recv", verb)

LastRecv(tr, verb) ==
    tr[CHOOSE i \in DOMAIN tr :
           /\ IsMsg(tr[i], "recv", verb)
           /\ \A j \in DOMAIN tr : j > i => ~IsMsg(tr[j], "recv", verb)]

\* the public key the device gave last
KeyReceived(tr) == LastRecv(tr, "GetValue").dict.Value

\* the TLS handshake of the call completed
TlsCompleted(tr) == \E i \in DOMAIN tr : tr[i].k = "tls_handshake" /\ tr[i].res = "ok"

(***************************************************************************)
(* C14.  A handshake with a device whose key the trust store does not      *)
(* hold, in which QueryType, Pair and ValidatePair are answered with       *)
(* Success, StartSession with SessionID = S and EnableSessionSSL = true,   *)
(* and the TLS handshake completes, returns success with session_id = S,   *)
(* TLS active and the trust store holding the key the device returned.     *)
(***************************************************************************)
FreshDeviceRun(tr) ==
    /\ \A v \in {"QueryType", "Pair", "ValidatePair", "StartSession"} :
          HasRecv(tr, v) /\ SaidSuccess(LastRecv(tr, v))
    /\ LastRecv(tr, "StartSession").dict.SessionID \in SessionIds
    /\ LastRecv(tr, "StartSession").dict.EnableSessionSSL = "true"
    /\ TlsCompleted(tr)

C14_FreshDeviceHandshake ==
    [][/\ HsReturned(last', undefined')
       /\ device_key = NoKey
       /\ FreshDeviceRun(wire')
       => /\ last'.ret = E_SUCCESS
          /\ handle' = "live"
          /\ session_id' = LastRecv(wire', "StartSession").dict.SessionID
          /\ ssl_enabled'
          /\ device_key' = KeyReceived(wire')]_vars

(***************************************************************************)
(* C15.  Pair, ValidatePair and Unpair answered with Result = Failure      *)
(* return PasswordProtected when the answer's Error is "PasswordProtected",*)
(* InvalidHostId when it is "InvalidHostID", PairingFailed for every other *)
(* Error and for none.  The code knows PasswordProtected only.             *)
(***************************************************************************)
PairFailureCode(err) ==
    IF err = "PasswordProtected" THEN E_PASSWORD_PROTECTED
    ELSE IF err = "InvalidHostID" THEN E_INVALID_HOST_ID
    ELSE E_PAIRING_FAILED

C15_PairFailureMapping ==
    /\ last.op \in PairVerbs
    /\ last.ret # CRASH
    /\ ~undefined
    /\ HasRecv(wire, last.op)
    /\ LastRecv(wire, last.op).dict.Request = last.op
    /\ LastRecv(wire, last.op).dict.Result = "Failure"
    => last.ret = PairFailureCode(LastRecv(wire, last.op).dict.Error)

(***************************************************************************)
(* C16.  On a client that knows the uuid of its device, an Unpair that     *)
(* returns success leaves the trust store without key for the device, and  *)
(* a Pair or ValidatePair that returns success leaves it holding the key   *)
(* the device gave in that call (so Unpair after Pair leaves no key, and a *)
(* second ValidatePair the state of the first).                            *)
(***************************************************************************)
C16_StoreFollowsVerb ==
    [][/\ last'.op \in PairVerbs
       /\ last'.ret = E_SUCCESS
       /\ ~undefined'
       /\ uuid # NULL
       => device_key' = IF last'.op = "Unpair" THEN NoKey ELSE KeyReceived(wire')]_vars

(***************************************************************************)
(* C17.  A pairing verb answered with Success whose write to the trust     *)
(* store fails does not return success, and sends nothing after the        *)
(* failed write.  The code does not look at what the trust store returns.  *)
(* Stated of the clients that know the uuid of their device.               *)
(***************************************************************************)
C17_StoreErrorSurfaced ==
    \A i \in DOMAIN wire :
        /\ last.op \in PairVerbs
        /\ last.ret # CRASH
        /\ ~undefined
        /\ uuid # NULL
        /\ wire[i].k \in StoreKinds
        /\ wire[i].res = "err"
        => /\ last.ret # E_SUCCESS
           /\ \A j \in DOMAIN wire : j > i => wire[j].k # "send"

(***************************************************************************)
(* C18.  A StartSession answered with Result = Failure and                 *)
(* Error = InvalidHostID returns InvalidHostId, stores no session id of    *)
(* that answer and leaves TLS inactive.                                    *)
(***************************************************************************)
C18_InvalidHostId ==
    [][/\ last'.op = "start_session"
       /\ last'.ret # CRASH
       /\ ~undefined'
       /\ Answered(wire', "StartSession", "Failure", "InvalidHostID")
       => /\ last'.ret = E_INVALID_HOST_ID
          /\ session_id' \in {NULL, session_id}
          /\ ~ssl_enabled']_vars

(***************************************************************************)
(* C19.  StartService in a session, answered with a well-formed answer,    *)
(* returns success and the answer's Port when Result = Success and Port is *)
(* an unsigned integer other than zero, and StartServiceFailed when        *)
(* Result = Failure or Port is zero or missing; with a Port of another     *)
(* type it does not return success.                                        *)
(***************************************************************************)
ServiceAnswered(tr) ==
    /\ HasRecv(tr, "StartService")
    /\ LastRecv(tr, "StartService").dict.rc = "ok"
    /\ LastRecv(tr, "StartService").dict.Request = "StartService"
    /\ LastRecv(tr, "StartService").dict.Result \in {"Success", "Failure"}

ServiceOutcome(d, l) ==
    IF d.Result = "Failure" \/ d.Port \in {"0", Absent} THEN l.ret = E_START_SERVICE_FAILED
    ELSE IF d.Port = NonString THEN l.ret # E_SUCCESS
    ELSE l.ret = E_SUCCESS /\ l.val = d.Port

C19_StartServicePort ==
    /\ last.op = "start_service"
    /\ last.ret # CRASH
    /\ ~undefined
    /\ session_id # NULL
    /\ ServiceAnswered(wire)
    => ServiceOutcome(LastRecv(wire, "StartService").dict, last)

(***************************************************************************)
(* C20.  lockdownd_client_free that returns has released the client, and   *)
(* wherever a client is released the Goodbye request was attempted and the *)
(* close of the transport is the last thing done, whatever became of the   *)
(* StopSession before and of the Goodbye exchange itself.                  *)
(***************************************************************************)
FreeCleansUp(tr) ==
    /\ Len(tr) >= 2
    /\ tr[Len(tr)].k = "close"
    /\ \E g \in 1..(Len(tr) - 1) : IsMsg(tr[g], "send", "Goodbye")

AllLabelled(tr, lbl) ==
    \A i \in DOMAIN tr :
        tr[i].k = "send" => tr[i].label = IF lbl = NULL THEN Absent ELSE lbl

(***************************************************************************)
(* C21.  lockdownd_client_set_label(client, L) makes L the label of the    *)
(* client, no other call on a live client changes the label, and every     *)
(* request of a call carries the label the client has: Label = L, and no   *)
(* Label field while the label is NULL.                                    *)
(***************************************************************************)
C21_LabelFollowsSetLabel ==
    [][/\ last'.op = "set_label" => label' = last'.arg
       /\ handle = "live" /\ handle' = "live" /\ last'.op # "set_label" => label' = label
       /\ handle = "live" => AllLabelled(wire', label)]_vars

\* a request of a client whose label was set carries it
C21_Witness ==
    /\ label = "test"
    /\ last.op = "get_value"
    /\ \E i \in DOMAIN wire : wire[i].k = "send" /\ wire[i].label = "test"

(***************************************************************************)
(* C22.  A client made by lockdownd_client_new or                          *)
(* lockdownd_client_new_with_handshake with a label holds that label, and  *)
(* the requests of the handshake carry it.  lockdownd_client_new drops the *)
(* copy of the label it makes.                                             *)
(***************************************************************************)
C22_ConstructorStoresLabel ==
    /\ last.op \in {"client_new", "client_new_with_handshake"}
    /\ last.arg # NULL
    /\ last.ret = E_SUCCESS
    /\ ~undefined
    => label = last.arg /\ AllLabelled(wire, last.arg)

(***************************************************************************)
(* C23.  lockdownd_query_type answered with Request = QueryType, a Type    *)
(* and no Result returns success and that Type.  lockdown_check_result     *)
(* wants a Result of QueryType's answer as of every other.                 *)
(***************************************************************************)
C23_QueryTypeWithoutResult ==
    /\ last.op = "query_type"
    /\ last.arg
    /\ last.ret # CRASH
    /\ ~undefined
    /\ HasRecv(wire, "QueryType")
    /\ LastRecv(wire, "QueryType").dict.rc = "ok"
    /\ LastRecv(wire, "QueryType").dict.Request = "QueryType"
    /\ LastRecv(wire, "QueryType").dict.Result = Absent
    /\ LastRecv(wire, "QueryType").dict.Type \notin {Absent, NonString}
    => last.ret = E_SUCCESS /\ last.val = LastRecv(wire, "QueryType").dict.Type

(***************************************************************************)
(* C24.  lockdownd_query_type called with a NULL place for the type and    *)
(* answered with a success returns success and reads nothing through the   *)
(* NULL pointer.  The code prints *type after the answer.                  *)
(***************************************************************************)
C24_QueryTypeNullType ==
    [][/\ last'.op = "query_type"
       /\ ~last'.arg
       /\ ~undefined
       /\ HasRecv(wire', "QueryType")
       /\ SaidSuccess(LastRecv(wire', "QueryType"))
       => last'.ret = E_SUCCESS /\ ~undefined']_vars

(***************************************************************************)
(* C25.  lockdownd_start_session on a client that holds a session id sends *)
(* StopSession for that id first and has finished that exchange, TLS       *)
(* switched off with it, before its StartSession request goes out: the     *)
(* StartSession request is plaintext.                                      *)
(***************************************************************************)
StopsBeforeStart(tr, sid, tls) ==
    /\ IsMsg(tr[1], "send", "StopSession")
    /\ tr[1].sid = sid
    /\ \A i \in DOMAIN tr :
          IsMsg(tr[i], "send", "StartSession") =>
              /\ ~tr[i].enc
              /\ \E j \in 1..(i - 1) : IsMsg(tr[j], "recv", "StopSession")
              /\ tls => \E j \in 1..(i - 1) : tr[j].k = "tls_bye"

C25_StopBeforeStart ==
    [][/\ last'.op = "start_session"
       /\ session_id # NULL
       /\ Has(wire', "send", "StartSession")
       /\ last'.ret # CRASH
       /\ ~undefined'
       => StopsBeforeStart(wire', session_id, ssl_enabled)]_vars

(***************************************************************************)
(* C26.  A pairing verb called without HostID on a trust store without     *)
(* HostID returns InvalidConf (or the error of the certificate step before *)
(* it), sends no pairing request and leaves the trust store as it was;     *)
(* every pairing request carries the HostID passed, or the trust store's   *)
(* when none is passed.  Stated of the calls the device gave its key to.   *)
(* The code builds the request from the NULL HostID.                       *)
(***************************************************************************)
KeyDelivered(tr) ==
    /\ HasRecv(tr, "GetValue")
    /\ LastRecv(tr, "GetValue").dict.Value \in DeviceKeys

C26_NoHostIdNoPairing ==
    [][/\ last'.op \in PairVerbs
       /\ ~undefined
       /\ KeyDelivered(wire')
       => /\ last'.arg = NULL /\ host_id = NULL =>
                /\ last'.ret \in {E_INVALID_CONF, E_SSL_ERROR, E_UNKNOWN_ERROR}
                /\ ~undefined'
                /\ ~Has(wire', "send", last'.op)
                /\ device_key' = device_key
          /\ \A i \in DOMAIN wire' :
                IsMsg(wire'[i], "send", last'.op) =>
                    wire'[i].hostid = IF last'.arg # NULL THEN last'.arg ELSE host_id]_vars

(***************************************************************************)
(* C28.  Over every sequence of calls that has met no undefined behaviour, *)
(* no call deinitialises a TLS session or frees a credential set that is   *)
(* not initialised at that moment: what was released once is not released  *)
(* again.  lockdownd_ssl_stop_session keeps the pointers it has released.  *)
(* Stated of the StopSession calls that pass the id the client holds.      *)
(***************************************************************************)
ReleasedTwice(tr) ==
    \E i \in DOMAIN tr : tr[i].k \in {"tls_deinit", "cred_free"} /\ tr[i].res = "double"

C28_ReleaseOnce ==
    [][/\ ~undefined
       /\ last'.op = "stop_session" => last'.arg = session_id
       => ~ReleasedTwice(wire')]_vars

(***************************************************************************)
(* C29.  A call whose request is answered with a well-formed               *)
(* Result = Failure does not return success, and GetValue hands back no    *)
(* value then.                                                             *)
(***************************************************************************)
OpVerb(op) ==
    CASE op = "get_value" -> "GetValue"
      [] op = "set_value" -> "SetValue"
      [] op = "remove_value" -> "RemoveValue"
      [] op = "start_session" -> "StartSession"
      [] op = "stop_session" -> "StopSession"
      [] op = "enter_recovery" -> "EnterRecovery"
      [] op = "goodbye" -> "Goodbye"
      [] op = "start_service" -> "StartService"
      [] op = "activate" -> "Activate"
      [] op = "deactivate" -> "Deactivate"
      [] op \in PairVerbs -> op
      [] OTHER -> "none"

SaidFailure(e) ==
    /\ e.k = "recv"
    /\ e.dict.rc = "ok"
    /\ e.dict.Request = e.verb
    /\ e.dict.Result = "Failure"

C29_FailureIsNotSuccess ==
    /\ ~undefined
    /\ HasRecv(wire, OpVerb(last.op))
    /\ SaidFailure(LastRecv(wire, OpVerb(last.op)))
    => last.ret # E_SUCCESS /\ (last.op = "get_value" => last.val = NULL)

(***************************************************************************)
(* C30.  After a lockdownd_start_session whose request went out the        *)
(* session id the client holds, if it holds one, is the SessionID of the   *)
(* answer to that request: the id of the session held before does not      *)
(* outlive the call.                                                       *)
(***************************************************************************)
C30_SessionIdIsLatest ==
    [][/\ last'.op = "start_session"
       /\ Sent(wire', "StartSession")
       /\ last'.ret # CRASH
       /\ ~undefined'
       /\ session_id' # NULL
       => /\ HasRecv(wire', "StartSession")
          /\ session_id' = LastRecv(wire', "StartSession").dict.SessionID]_vars

(***************************************************************************)
(* C27.  lockdownd_ssl_read asked for n bytes, over every sequence of      *)
(* short reads: every iphone_device_recv is asked for exactly the bytes    *)
(* still missing; a call that returns without error returns n, and the     *)
(* buffer holds the n bytes in the order they arrived; a failed            *)
(* iphone_device_recv ends the call at once, and a call that has returned  *)
(* reads no more.                                                          *)
(***************************************************************************)
C27_ReadExact ==
    [][/\ rd'.calls # rd.calls =>
             /\ rd.pc = "loop"
             /\ rd'.calls = rd.calls + 1
             /\ rd'.asked = rd.length - rd.tbytes
       /\ rd'.pc = "returned" /\ ~rd'.ret.error =>
             /\ rd'.ret.n = rd'.length
             /\ rd'.buffer = rd'.arrived
       /\ rd'.ret.error => rd'.pc = "returned" /\ rd'.calls = rd.calls + 1]_vars

\* four bytes asked, delivered by three reads or more
C27_Witness ==
    /\ rd.pc = "returned"
    /\ rd.length = 4
    /\ rd.calls >= 3
    /\ ~rd.ret.error
    /\ rd.ret.n = 4
    /\ rd.buffer = rd.arrived

\* the call made no client: nothing was constructed and no QueryType was tried
NoClientMade(h, tr) == h \in {"none", "crashed"} /\ ~Has(tr, "send", "QueryType")

NoRequest(tr) == \A i \in DOMAIN tr : tr[i].k # "send"

(***************************************************************************)
(* C31.  When the connection to the device cannot be established,          *)
(* lockdownd_client_new_with_handshake returns MuxError, sends no request  *)
(* and does not use the client handle that was not created.                *)
(***************************************************************************)
C31_NoConnectionMuxError ==
    [][/\ ~undefined
       /\ last'.op = "client_new_with_handshake"
       /\ NoClientMade(handle', wire')
       => /\ last'.ret = E_MUX_ERROR
          /\ ~undefined'
          /\ handle' = "none"
          /\ NoRequest(wire')]_vars

IsMessage(e) == e.k \in {"send", "recv"}

\* the requests and the receives of a call, in their order
Msgs(tr) == SelectSeq(tr, IsMessage)

\* every receive follows the send of its request, and a request that went out is
\* received for before the next one is sent
Alternates(m) ==
    \A i \in DOMAIN m :
        /\ m[i].k = "recv" => i > 1 /\ IsMsg(m[i - 1], "send", m[i].verb)
        /\ m[i].k = "send" /\ m[i].res = "sent" =>
              i < Len(m) /\ IsMsg(m[i + 1], "recv", m[i].verb)

\* no receive is tried for a request whose send failed
FailedSendStops(m) ==
    \A i \in DOMAIN m :
        m[i].k = "send" /\ m[i].res = "senderr" /\ i < Len(m) => m[i + 1].k # "recv"

\* the send of the call's own request failed
OwnSendFailed(m, op) ==
    \E i \in DOMAIN m :
        IsMsg(m[i], "send", IF op = "query_type" THEN "QueryType" ELSE OpVerb(op))
            /\ m[i].res = "senderr"

(***************************************************************************)
(* C32.  On one client requests and receives alternate, one request in     *)
(* flight at a time, and no call waits for the answer to a request whose   *)
(* send failed: the call returns an error without trying to receive.       *)
(* Stated of the calls that return and met no undefined behaviour.         *)
(***************************************************************************)
C32_Serialized ==
    [][/\ last'.op # "none"
       /\ last'.ret # CRASH
       /\ ~undefined'
       => /\ Alternates(Msgs(wire'))
          /\ FailedSendStops(Msgs(wire'))
          /\ OwnSendFailed(Msgs(wire'), last'.op) => last'.ret # E_SUCCESS]_vars

====
